---- MODULE Spec2Model ----
(***************************************************************************)
(* One run of ocr_standalone.py: main() dispatching on the extension of    *)
(* --input to process_pdf_file or process_image_file, with the external    *)
(* collaborators (os.makedirs, pdf2image, cv2, PIL, pytesseract) as        *)
(* nondeterministic steps that succeed or raise.  Strings that the code    *)
(* takes apart or builds (paths, extensions, file names, the output text)  *)
(* are sequences of one-character strings and literal pieces.              *)
(*                                                                         *)
(* Environment assumptions: the output path is not one of the artifact     *)
(* paths, and opening/writing the output file itself succeeds.             *)
(***************************************************************************)
EXTENDS Integers, Sequences, FiniteSets, TLC

\* ---------------------------------------------------------------- bounds
MaxPages == 2

\* ------------------------------------------------------------ input sets
\* --input values: upper/lower/mixed case, directories, a leading-dot name,
\* a dot only in the directory part, two extensions, near-miss extensions.
InputPaths ==
  { <<"a", ".", "p", "d", "f">>,
    <<"a", ".", "P", "D", "F">>,
    <<"d", "/", "b", ".", "P", "d", "f">>,
    <<".", "p", "d", "f">>,
    <<"a", ".", "b", "/", "c">>,
    <<"a", ".", "j", "p", "g">>,
    <<"a", ".", "J", "P", "E", "G">>,
    <<"x", "/", "a", ".", "p", "n", "g">>,
    <<"a", ".", "t", "i", "f", "f">>,
    <<"a", ".", "B", "M", "P">>,
    <<"a", ".", "t", "x", "t">>,
    <<"a", ".", "g", "i", "f">>,
    <<"a", ".", "p", "d", "f", ".", "t", "x", "t">>,
    <<"a", ".", "t", "i", "f">> }

\* --pages-dir values (the first is the argparse default)
PagesDirs == {"extracted_pages", "d"}

\* strings the OCR engine may return
Texts == { <<>>, <<"a">>, <<"b">> }

\* content of a file that is already at the output path before the run
OldText == <<"o", "l", "d">>
NoFile == [exists |-> FALSE, data |-> <<>>]
File(d) == [exists |-> TRUE, data |-> d]

\* a directory of the file system before the run: absent, empty, or holding
\* a file of an earlier run
NoDir == [exists |-> FALSE, files |-> {}]
InitialDirs == { NoDir,
                 [exists |-> TRUE, files |-> {}],
                 [exists |-> TRUE, files |-> {<<"notes", "", ".txt">>}] }

\* Python's None / a str, for the value process_image_file returns
None == [none |-> TRUE, val |-> <<>>]
Str(s) == [none |-> FALSE, val |-> s]

\* ------------------------------------------------------- pure functions
UpperCase == <<"A","B","C","D","E","F","G","H","I","J","K","L","M",
               "N","O","P","Q","R","S","T","U","V","W","X","Y","Z">>
LowerCase == <<"a","b","c","d","e","f","g","h","i","j","k","l","m",
               "n","o","p","q","r","s","t","u","v","w","x","y","z">>

\* str.lower() on one character
LowerChar(c) ==
  IF \E k \in 1..Len(UpperCase) : UpperCase[k] = c
  THEN LowerCase[CHOOSE k \in 1..Len(UpperCase) : UpperCase[k] = c]
  ELSE c

\* str.lower()
Lower(s) == [j \in 1..Len(s) |-> LowerChar(s[j])]

\* str.rfind(c), 1-based; 0 when absent
RFind(p, c) ==
  IF \E j \in 1..Len(p) : p[j] = c
  THEN CHOOSE j \in 1..Len(p) : p[j] = c /\ \A l \in (j+1)..Len(p) : p[l] # c
  ELSE 0

\* variant: everything from the last dot of the path, leading dots included
SplitextExtLastDot(p) ==
  LET dotIndex == RFind(p, ".")
  IN IF dotIndex > RFind(p, "/") THEN SubSeq(p, dotIndex, Len(p)) ELSE <<>>

\* os.path.splitext(p)[1]: from the last dot of the last path component,
\* unless that component has only dots before it
SplitextExt(p) ==
  LET sepIndex == RFind(p, "/")
      dotIndex == RFind(p, ".")
  IN IF dotIndex > sepIndex
        /\ \E j \in (sepIndex+1)..(dotIndex-1) : p[j] # "."
     THEN SubSeq(p, dotIndex, Len(p))
     ELSE <<>>

\* os.path.basename(p)
Basename(p) == SubSeq(p, RFind(p, "/") + 1, Len(p))

\* file_ext of main
FileExt(p) == Lower(SplitextExt(p))

PdfExt == <<".", "p", "d", "f">>
ImageExts == { <<".", "j", "p", "g">>, <<".", "j", "p", "e", "g">>,
               <<".", "p", "n", "g">>, <<".", "t", "i", "f", "f">>,
               <<".", "b", "m", "p">> }

IsPdf(ext) == ext = PdfExt
IsImage(ext) == ext \in ImageExts

\* str(n) for a natural number, as in an f-string
Digit == <<"0","1","2","3","4","5","6","7","8","9">>
RECURSIVE IntToStr(_)
IntToStr(n) == IF n < 10 THEN <<Digit[n+1]>>
               ELSE IntToStr(n \div 10) \o <<Digit[(n % 10) + 1]>>

\* variant: the 0-based index used as the page number
PageNumZeroBased(i) == i

\* page_num = i + 1, i the 0-based index of enumerate
PageNum(i) == i + 1

PageFilename(n) == <<"page_">> \o IntToStr(n) \o <<".jpg">>
PreprocessedFilename(n) == <<"preprocessed_page_">> \o IntToStr(n) \o <<".jpg">>

\* variant: the prefix put in front of the whole path
PreprocessedImageNameFullPath(p) == <<"preprocessed_">> \o p

\* "preprocessed_" + os.path.basename(image_path)
PreprocessedImageName(p) == <<"preprocessed_">> \o Basename(p)

\* the separator main writes in front of a page's text
Separator(n) == <<"\n\n===== PAGE ">> \o IntToStr(n) \o <<" =====\n\n">>

\* what the with-block of the PDF branch writes for a list of page results
RECURSIVE PdfOutput(_)
PdfOutput(rs) ==
  IF rs = <<>> THEN <<>>
  ELSE Separator(rs[1].page) \o rs[1].text \o PdfOutput(Tail(rs))

\* variant: the directory passed on whether or not --pages is set
OutputFolderArgAlways(pages, dir) == dir

\* args.pages_dir if args.pages else None ("" stands for None: falsy)
OutputFolderArg(pages, dir) == IF pages THEN dir ELSE ""

\* variant: the folder never taken as requested
FolderRequestedNever(folder) == FALSE

\* truth value of a folder argument (None and "" are falsy)
FolderRequested(folder) == folder # ""

\* variant: no test at all
TruthyAlways(t) == TRUE

\* variant: `if text is not None:`
TruthyNotNone(t) == ~t.none

\* `if text:` of main: None and the empty string are falsy
Truthy(t) == ~t.none /\ t.val # <<>>

\* variant: the results collected so far returned
ExceptResultPartial(rs) == rs

\* what the except-clause of process_pdf_file returns
ExceptResult(rs) == <<>>

\* one call and how it ended; val is the string an OCR call returned
Ev(op, page, outcome) == [op |-> op, page |-> page, outcome |-> outcome, val |-> <<>>]
EvText(op, page, t) == [op |-> op, page |-> page, outcome |-> "ok", val |-> t]

\* ----------------------------------------------------------------- state
VARIABLES
  inputPath, pagesFlag, pagesDir,   \* args
  pc,                               \* position in the program
  outputFolder,                     \* process_pdf_file: output_folder
  numImages,                        \* process_pdf_file: len(images)
  idx,                              \* process_pdf_file: i of enumerate
  results,                          \* process_pdf_file: results
  mainResults,                      \* main: results
  text,                             \* main: text
  out,                              \* the file at args.output
  outPrior,                         \* that file before the run (history)
  opens,                            \* times args.output was opened for writing (history)
  dirs,                             \* the directories --pages-dir can name
  dirsPrior,                        \* those directories before the run (history)
  cwd,                              \* files written into the working directory
  log,                              \* lines printed
  events                            \* calls made and their outcomes, in order (history)

vars == <<inputPath, pagesFlag, pagesDir, pc, outputFolder, numImages, idx,
          results, mainResults, text, out, outPrior, opens, dirs, dirsPrior,
          cwd, log, events>>

args == <<inputPath, pagesFlag, pagesDir, outPrior, dirsPrior>>

Init ==
  /\ inputPath \in InputPaths
  /\ pagesFlag \in BOOLEAN
  /\ pagesDir \in PagesDirs
  /\ pc = "main"
  /\ outputFolder = ""
  /\ numImages = 0
  /\ idx = 0
  /\ results = <<>>
  /\ mainResults = <<>>
  /\ text = None
  /\ out \in {NoFile, File(<<>>), File(OldText)}
  /\ outPrior = out
  /\ opens = 0
  /\ dirs \in [PagesDirs -> InitialDirs]
  /\ dirsPrior = dirs
  /\ cwd = {}
  /\ log = <<>>
  /\ events = <<>>

\* ------------------------------------------------------------------ main
\* main(), lines 138-141, 152, 161: branch on the lower-cased extension
Dispatch ==
  /\ pc = "main"
  /\ LET file_ext == FileExt(inputPath) IN
       IF IsPdf(file_ext)
       THEN /\ pc' = "pdf_makedirs"
            /\ outputFolder' = OutputFolderArg(pagesFlag, pagesDir)
       ELSE /\ pc' = IF IsImage(file_ext) THEN "img_imread" ELSE "unsupported"
            /\ UNCHANGED outputFolder
  /\ UNCHANGED <<args, numImages, idx, results, mainResults, text, out,
                 opens, dirs, cwd, log, events>>

\* main(), lines 161-163
Unsupported ==
  /\ pc = "unsupported"
  /\ log' = log \o << <<"Unsupported file format: ", FileExt(inputPath)>>,
                      <<"Supported formats: PDF, JPG, JPEG, PNG, TIFF, BMP", <<>> >> >>
  /\ pc' = "done"
  /\ UNCHANGED <<args, outputFolder, numImages, idx, results, mainResults,
                 text, out, opens, dirs, cwd, events>>

\* ------------------------------------------------------ process_pdf_file
\* lines 86-87: os.makedirs(output_folder, exist_ok=True) when a folder is given
Makedirs ==
  /\ pc = "pdf_makedirs"
  /\ IF FolderRequested(outputFolder)
     THEN \E outcome \in {"ok", "raise"} :
            /\ events' = Append(events, Ev("makedirs", 0, outcome))
            /\ IF outcome = "ok"
               THEN /\ dirs' = [dirs EXCEPT ![outputFolder].exists = TRUE]
                    /\ pc' = "pdf_convert"
               ELSE /\ pc' = "pdf_except"
                    /\ UNCHANGED dirs
     ELSE /\ pc' = "pdf_convert"
          /\ UNCHANGED <<dirs, events>>
  /\ UNCHANGED <<args, outputFolder, numImages, idx, results, mainResults,
                 text, out, opens, cwd, log>>

\* lines 90-91: print, then pdf2image.convert_from_path
ConvertFromPath ==
  /\ pc = "pdf_convert"
  /\ log' = Append(log, <<"Converting PDF to images: ", inputPath>>)
  /\ \/ \E n \in 0..MaxPages :
          /\ numImages' = n
          /\ events' = Append(events, Ev("convert", n, "ok"))
          /\ pc' = "pdf_loop"
     \/ /\ events' = Append(events, Ev("convert", 0, "raise"))
        /\ pc' = "pdf_except"
        /\ UNCHANGED numImages
  /\ UNCHANGED <<args, outputFolder, idx, results, mainResults, text, out,
                 opens, dirs, cwd>>

\* lines 93-95: next element of enumerate(images), or the end of the loop
LoopHead ==
  /\ pc = "pdf_loop"
  /\ IF idx < numImages
     THEN /\ log' = Append(log, <<"Processing page ",
                                  IntToStr(PageNum(idx)) \o <<"/">> \o IntToStr(numImages)>>)
          /\ pc' = "pdf_preprocess"
     ELSE /\ pc' = "pdf_return"
          /\ UNCHANGED log
  /\ UNCHANGED <<args, outputFolder, numImages, idx, results, mainResults,
                 text, out, opens, dirs, cwd, events>>

\* lines 98-101: np.array(image), preprocess_image(img_array)
PdfPreprocess ==
  /\ pc = "pdf_preprocess"
  /\ \E outcome \in {"ok", "raise"} :
       /\ events' = Append(events, Ev("preprocess", PageNum(idx), outcome))
       /\ pc' = IF outcome = "raise" THEN "pdf_except"
                ELSE IF FolderRequested(outputFolder) THEN "pdf_save"
                ELSE "pdf_ocr"
  /\ UNCHANGED <<args, outputFolder, numImages, idx, results, mainResults,
                 text, out, opens, dirs, cwd, log>>

\* lines 104-109: image.save(<folder>/page_<n>.jpg)
SavePage ==
  /\ pc = "pdf_save"
  /\ \E outcome \in {"ok", "raise"} :
       /\ events' = Append(events, Ev("save", PageNum(idx), outcome))
       /\ IF outcome = "ok"
          THEN /\ dirs' = [dirs EXCEPT ![outputFolder].files =
                                         @ \cup {PageFilename(PageNum(idx))}]
               /\ pc' = "pdf_imwrite"
          ELSE /\ pc' = "pdf_except"
               /\ UNCHANGED dirs
  /\ UNCHANGED <<args, outputFolder, numImages, idx, results, mainResults,
                 text, out, opens, cwd, log>>

\* line 112: cv2.imwrite(<folder>/preprocessed_page_<n>.jpg); its boolean
\* result is ignored, so a write that reports failure goes unnoticed
WritePreprocessedPage ==
  /\ pc = "pdf_imwrite"
  /\ \E outcome \in {"ok", "false", "raise"} :
       /\ events' = Append(events, Ev("imwrite", PageNum(idx), outcome))
       /\ dirs' = IF outcome = "ok"
                  THEN [dirs EXCEPT ![outputFolder].files =
                                      @ \cup {PreprocessedFilename(PageNum(idx))}]
                  ELSE dirs
       /\ pc' = IF outcome = "raise" THEN "pdf_except" ELSE "pdf_ocr"
  /\ UNCHANGED <<args, outputFolder, numImages, idx, results, mainResults,
                 text, out, opens, cwd, log>>

\* lines 115-120: pytesseract.image_to_string, results.append, next iteration
PdfOcr ==
  /\ pc = "pdf_ocr"
  /\ \/ \E t \in Texts :
          /\ events' = events \o << EvText("ocr", PageNum(idx), t),
                                   Ev("append", PageNum(idx), "ok") >>
          /\ results' = Append(results, [page |-> PageNum(idx), text |-> t])
          /\ idx' = idx + 1
          /\ pc' = "pdf_loop"
     \/ /\ events' = Append(events, Ev("ocr", PageNum(idx), "raise"))
        /\ pc' = "pdf_except"
        /\ UNCHANGED <<results, idx>>
  /\ UNCHANGED <<args, outputFolder, numImages, mainResults, text, out,
                 opens, dirs, cwd, log>>

\* line 122: return results
PdfReturn ==
  /\ pc = "pdf_return"
  /\ mainResults' = results
  /\ pc' = "main_pdf_write"
  /\ UNCHANGED <<args, outputFolder, numImages, idx, results, text, out,
                 opens, dirs, cwd, log, events>>

\* variant: the except-clause also removes what the run put on disk
PdfExceptCleanup ==
  /\ pc = "pdf_except"
  /\ log' = Append(log, <<"Error processing PDF ", inputPath>>)
  /\ mainResults' = <<>>
  /\ dirs' = dirsPrior
  /\ pc' = "main_pdf_write"
  /\ UNCHANGED <<args, outputFolder, numImages, idx, results, text, out,
                 opens, cwd, events>>

\* lines 124-126: except Exception: print, return []
PdfExcept ==
  /\ pc = "pdf_except"
  /\ log' = Append(log, <<"Error processing PDF ", inputPath>>)
  /\ mainResults' = ExceptResult(results)
  /\ pc' = "main_pdf_write"
  /\ UNCHANGED <<args, outputFolder, numImages, idx, results, text, out,
                 opens, dirs, cwd, events>>

\* variant: the output written only for a non-empty result list
MainWritePdfIfResults ==
  /\ pc = "main_pdf_write"
  /\ IF mainResults # <<>>
     THEN /\ out' = File(PdfOutput(mainResults))
          /\ opens' = opens + 1
     ELSE UNCHANGED <<out, opens>>
  /\ log' = Append(log, <<"Extracted text from ",
                          IntToStr(Len(mainResults)) \o <<" pages saved to output">> >>)
  /\ pc' = "done"
  /\ UNCHANGED <<args, outputFolder, numImages, idx, results, mainResults,
                 text, dirs, cwd, events>>

\* main(), lines 145-150: open(args.output, 'w'), a separator and the text
\* per page result, then the summary line
MainWritePdf ==
  /\ pc = "main_pdf_write"
  /\ out' = File(PdfOutput(mainResults))
  /\ opens' = opens + 1
  /\ log' = Append(log, <<"Extracted text from ",
                          IntToStr(Len(mainResults)) \o <<" pages saved to output">> >>)
  /\ pc' = "done"
  /\ UNCHANGED <<args, outputFolder, numImages, idx, results, mainResults,
                 text, dirs, cwd, events>>

\* ---------------------------------------------------- process_image_file
\* lines 51-54: cv2.imread; a None image prints and returns None
Imread ==
  /\ pc = "img_imread"
  /\ \E outcome \in {"ok", "none", "raise"} :
       /\ events' = Append(events, Ev("imread", 0, outcome))
       /\ IF outcome = "none"
          THEN /\ log' = Append(log, <<"Failed to load image: ", inputPath>>)
               /\ text' = None
               /\ pc' = "main_img_write"
          ELSE /\ pc' = IF outcome = "ok" THEN "img_preprocess" ELSE "img_except"
               /\ UNCHANGED <<log, text>>
  /\ UNCHANGED <<args, outputFolder, numImages, idx, results, mainResults,
                 out, opens, dirs, cwd>>

\* line 57: preprocess_image(img)
ImgPreprocess ==
  /\ pc = "img_preprocess"
  /\ \E outcome \in {"ok", "raise"} :
       /\ events' = Append(events, Ev("preprocess", 0, outcome))
       /\ pc' = IF outcome = "ok" THEN "img_imwrite" ELSE "img_except"
  /\ UNCHANGED <<args, outputFolder, numImages, idx, results, mainResults,
                 text, out, opens, dirs, cwd, log>>

\* line 60: cv2.imwrite("preprocessed_" + basename, preprocessed), result ignored
ImgWritePreprocessed ==
  /\ pc = "img_imwrite"
  /\ \E outcome \in {"ok", "false", "raise"} :
       /\ events' = Append(events, Ev("imwrite", 0, outcome))
       /\ cwd' = IF outcome = "ok"
                 THEN cwd \cup {PreprocessedImageName(inputPath)}
                 ELSE cwd
       /\ pc' = IF outcome = "raise" THEN "img_except" ELSE "img_ocr"
  /\ UNCHANGED <<args, outputFolder, numImages, idx, results, mainResults,
                 text, out, opens, dirs, log>>

\* lines 63-65: pytesseract.image_to_string, return text
ImgOcr ==
  /\ pc = "img_ocr"
  /\ \/ \E t \in Texts :
          /\ events' = Append(events, EvText("ocr", 0, t))
          /\ text' = Str(t)
          /\ pc' = "main_img_write"
     \/ /\ events' = Append(events, Ev("ocr", 0, "raise"))
        /\ pc' = "img_except"
        /\ UNCHANGED text
  /\ UNCHANGED <<args, outputFolder, numImages, idx, results, mainResults,
                 out, opens, dirs, cwd, log>>

\* lines 67-69: except Exception: print, return None
ImgExcept ==
  /\ pc = "img_except"
  /\ log' = Append(log, <<"Error processing image ", inputPath>>)
  /\ text' = None
  /\ pc' = "main_img_write"
  /\ UNCHANGED <<args, outputFolder, numImages, idx, results, mainResults,
                 out, opens, dirs, cwd, events>>

\* main(), lines 155-160: if text: open(args.output, 'w'), write, print
MainWriteImage ==
  /\ pc = "main_img_write"
  /\ IF Truthy(text)
     THEN /\ out' = File(text.val)
          /\ opens' = opens + 1
          /\ log' = Append(log, <<"Extracted text saved to output", <<>> >>)
     ELSE UNCHANGED <<out, opens, log>>
  /\ pc' = "done"
  /\ UNCHANGED <<args, outputFolder, numImages, idx, results, mainResults,
                 text, dirs, cwd, events>>

Next ==
  \/ Dispatch
  \/ Unsupported
  \/ Makedirs
  \/ ConvertFromPath
  \/ LoopHead
  \/ PdfPreprocess
  \/ SavePage
  \/ WritePreprocessedPage
  \/ PdfOcr
  \/ PdfReturn
  \/ PdfExcept
  \/ MainWritePdf
  \/ Imread
  \/ ImgPreprocess
  \/ ImgWritePreprocessed
  \/ ImgOcr
  \/ ImgExcept
  \/ MainWriteImage

Spec == Init /\ [][Next]_vars

\* ------------------------------------------------- vocabulary of the claims
\* the inputs by the branch main is expected to take for them
PdfInputs == { <<"a", ".", "p", "d", "f">>,
               <<"a", ".", "P", "D", "F">>,
               <<"d", "/", "b", ".", "P", "d", "f">> }
ImageInputs == { <<"a", ".", "j", "p", "g">>,
                 <<"a", ".", "J", "P", "E", "G">>,
                 <<"x", "/", "a", ".", "p", "n", "g">>,
                 <<"a", ".", "t", "i", "f", "f">>,
                 <<"a", ".", "B", "M", "P">> }
OtherInputs == InputPaths \ (PdfInputs \cup ImageInputs)

\* the decimal numerals of 1..9
Numeral == <<"1","2","3","4","5","6","7","8","9">>

EventSet == { events[j] : j \in 1..Len(events) }
Raised == \E e \in EventSet : e.outcome = "raise"
AllOk == \A e \in EventSet : e.outcome = "ok"
Rasterized == \E e \in EventSet : e.op = "convert" /\ e.outcome = "ok"
Happened(op, page, outcome) ==
  \E e \in EventSet : e.op = op /\ e.page = page /\ e.outcome = outcome
\* the string the OCR engine returned for page k
OcrTextOf(k) ==
  (CHOOSE e \in EventSet : e.op = "ocr" /\ e.page = k /\ e.outcome = "ok").val
\* the page at which the run failed (0: before any page)
FailedPage ==
  IF Raised THEN (CHOOSE e \in EventSet : e.outcome = "raise").page ELSE 0
\* the call that raised
FailedOp ==
  IF Raised THEN (CHOOSE e \in EventSet : e.outcome = "raise").op ELSE "none"

PdfReturned == inputPath \in PdfInputs /\ pc \in {"main_pdf_write", "done"}
ImageReturned == inputPath \in ImageInputs /\ pc \in {"main_img_write", "done"}
SuccessPrinted ==
  \E j \in 1..Len(log) : log[j][1] = "Extracted text saved to output"

SepPos(data) == { j \in 1..Len(data) : data[j] = "\n\n===== PAGE " }
NthSep(data, n) ==
  CHOOSE j \in SepPos(data) : Cardinality({l \in SepPos(data) : l <= j}) = n
SegmentEnd(data, n) ==
  IF n = Cardinality(SepPos(data)) THEN Len(data) ELSE NthSep(data, n + 1) - 1

\* C1: a PDF that rasterizes to N pages with no step raising gives N page
\* results numbered 1..N in order, each with the text OCR returned for that
\* page, and an output file of exactly N separators "===== PAGE i =====",
\* i ascending from 1, each immediately followed by exactly page i's text.
C1_SuccessfulPdfOutput ==
  (inputPath \in PdfInputs /\ pc = "done" /\ Rasterized /\ ~Raised) =>
    /\ Len(mainResults) = numImages
    /\ \A n \in 1..numImages :
         mainResults[n].page = n /\ mainResults[n].text = OcrTextOf(n)
    /\ out.exists
    /\ Cardinality(SepPos(out.data)) = numImages
    /\ (numImages = 0 => out.data = <<>>)
    /\ (numImages > 0 => NthSep(out.data, 1) = 1)
    /\ \A n \in 1..numImages :
         LET p == NthSep(out.data, n) IN
           /\ p + 2 <= Len(out.data)
           /\ out.data[p + 1] = Numeral[n]
           /\ out.data[p + 2] = " =====\n\n"
           /\ SubSeq(out.data, p + 3, SegmentEnd(out.data, n)) = OcrTextOf(n)

C1_Witness ==
  /\ inputPath \in PdfInputs /\ pc = "done" /\ Rasterized /\ ~Raised
  /\ numImages = 2
  /\ OcrTextOf(1) = <<"a">> /\ OcrTextOf(2) = <<"b">>
  /\ out.data = <<"\n\n===== PAGE ", "1", " =====\n\n", "a",
                  "\n\n===== PAGE ", "2", " =====\n\n", "b">>

\* C2: process_pdf_file is all-or-nothing: when makedirs, the rasterizer or
\* a step of page k raises, it returns the empty list, nothing is processed
\* after the failing step (no later page is touched), and the results
\* collected for the earlier pages are dropped; what it returns is always
\* either empty or the complete list of all N pages.
C2_AllOrNothing ==
  PdfReturned =>
    /\ Raised =>
         /\ mainResults = <<>>
         /\ events[Len(events)].outcome = "raise"
         /\ \A e \in EventSet : e.op # "convert" => e.page <= FailedPage
    /\ \/ mainResults = <<>>
       \/ /\ Len(mainResults) = numImages
          /\ \A n \in 1..numImages : mainResults[n].page = n

C2_Witness ==
  /\ PdfReturned /\ pc = "done"
  /\ numImages = 2
  /\ FailedPage = 2 /\ FailedOp = "ocr"
  /\ Len(results) = 1
  /\ mainResults = <<>>

C4_UnsupportedDoesNothing ==
  inputPath \in OtherInputs =>
    /\ pc \in {"main", "unsupported", "done"}
    /\ out = outPrior /\ opens = 0
    /\ events = <<>>
    /\ dirs = dirsPrior /\ cwd = {}
    /\ pc = "done" =>
         /\ Len(log) = 2
         /\ log[1][1] = "Unsupported file format: "
         /\ log[2][1] = "Supported formats: PDF, JPG, JPEG, PNG, TIFF, BMP"

C4_Witness ==
  /\ inputPath = <<".", "p", "d", "f">>
  /\ pc = "done"
  /\ log[1] = <<"Unsupported file format: ", <<>> >>
  /\ outPrior = File(OldText) /\ out = outPrior

\* C5: for a supported image input, when the loader returns no image or the
\* loader, the preprocessor, the preprocessed-image write or the OCR engine
\* raises, process_image_file returns None and main leaves the output path
\* as it was and prints no success message.
C5_ImageFailureLeavesOutput ==
  (ImageReturned /\ (Raised \/ Happened("imread", 0, "none"))) =>
    /\ text = None
    /\ out = outPrior /\ opens = 0
    /\ ~SuccessPrinted

C5_Witness ==
  /\ ImageReturned /\ pc = "done"
  /\ FailedOp = "ocr"
  /\ outPrior = File(OldText) /\ out = File(OldText)

\* the name preprocessed_<basename> of each image input
ExpectedPreprocessedName(p) ==
  CASE p = <<"a", ".", "j", "p", "g">> -> <<"preprocessed_", "a", ".", "j", "p", "g">>
    [] p = <<"a", ".", "J", "P", "E", "G">> -> <<"preprocessed_", "a", ".", "J", "P", "E", "G">>
    [] p = <<"x", "/", "a", ".", "p", "n", "g">> -> <<"preprocessed_", "a", ".", "p", "n", "g">>
    [] p = <<"a", ".", "t", "i", "f", "f">> -> <<"preprocessed_", "a", ".", "t", "i", "f", "f">>
    [] p = <<"a", ".", "B", "M", "P">> -> <<"preprocessed_", "a", ".", "B", "M", "P">>

\* C6 as stated: after any run that dispatches to the single-image processor
\* the file preprocessed_<basename> has been written in the working directory.
C6_AlwaysWritesPreprocessed ==
  (inputPath \in ImageInputs /\ pc = "done") =>
    ExpectedPreprocessedName(inputPath) \in cwd

\* C6 (amended): a single-image run writes preprocessed_<basename> into the
\* working directory exactly when the image loaded, preprocessing did not
\* raise and the write itself succeeded; then the file is there whatever
\* happens afterwards (OCR raising, empty or non-empty text, output written
\* or not), and in every other run no file is written there.
C6_WritesPreprocessedOnceLoaded ==
  ImageReturned =>
    cwd = IF /\ Happened("imread", 0, "ok")
             /\ Happened("preprocess", 0, "ok")
             /\ Happened("imwrite", 0, "ok")
          THEN {ExpectedPreprocessedName(inputPath)}
          ELSE {}

C6_Witness ==
  /\ ImageReturned /\ pc = "done"
  /\ inputPath = <<"x", "/", "a", ".", "p", "n", "g">>
  /\ FailedOp = "ocr" /\ Raised
  /\ cwd = {<<"preprocessed_", "a", ".", "p", "n", "g">>}
  /\ opens = 0

\* the steps of page k in the order the claim gives them
PageSteps(k, req) ==
  IF req
  THEN << <<"preprocess", k>>, <<"save", k>>, <<"imwrite", k>>, <<"ocr", k>>, <<"append", k>> >>
  ELSE << <<"preprocess", k>>, <<"ocr", k>>, <<"append", k>> >>
RECURSIVE DocumentOrder(_, _)
DocumentOrder(n, req) ==
  IF n = 0 THEN <<>> ELSE DocumentOrder(n - 1, req) \o PageSteps(n, req)
PageEvents ==
  SelectSeq(events, LAMBDA e : e.op \in {"preprocess", "save", "imwrite", "ocr", "append"})

\* C7: in a PDF run the steps happen page by page in document order: for
\* page k preprocess, then (with --pages) the write of page_k.jpg and of
\* preprocessed_page_k.jpg, then OCR, then the append of result k, all of
\* them before the first step of page k+1; a step that raises is the last.
C7_PagesInOrder ==
  inputPath \in PdfInputs =>
    LET pe == PageEvents
        order == DocumentOrder(numImages, pagesFlag)
    IN /\ Len(pe) <= Len(order)
       /\ \A j \in 1..Len(pe) :
            pe[j].op = order[j][1] /\ pe[j].page = order[j][2]
       /\ \A j \in 1..(Len(events) - 1) : events[j].outcome # "raise"
       /\ Len(results) = Cardinality({j \in 1..Len(pe) : pe[j].op = "append"})

C7_Witness ==
  /\ inputPath \in PdfInputs /\ pc = "done" /\ pagesFlag
  /\ numImages = 2
  /\ Len(PageEvents) = 10
  /\ PageEvents[5].op = "append" /\ PageEvents[5].page = 1
  /\ PageEvents[6].op = "preprocess" /\ PageEvents[6].page = 2

\* C8: a .pdf run always opens the output path for writing once
\* process_pdf_file has returned; after a failed run the output file exists
\* and is empty, whatever was there before, and the summary reports 0 pages.
C8_PdfAlwaysWritesOutput ==
  (inputPath \in PdfInputs /\ pc = "done") =>
    /\ opens = 1
    /\ out.exists
    /\ Raised =>
         /\ out = File(<<>>)
         /\ log[Len(log)] = <<"Extracted text from ", <<"0", " pages saved to output">> >>

C8_Witness ==
  /\ inputPath \in PdfInputs /\ pc = "done"
  /\ Raised /\ FailedPage = 2
  /\ outPrior = File(OldText)
  /\ out = File(<<>>)

\* C9: for a supported image input main writes the output file exactly when
\* the OCR engine returned a non-empty string; when every step succeeds and
\* OCR returns the empty string the output path is left as it was and no
\* success message is printed, as after a failure.
C9_ImageOutputIffNonEmptyText ==
  (inputPath \in ImageInputs /\ pc = "done") =>
    LET produced == \E e \in EventSet :
                      e.op = "ocr" /\ e.outcome = "ok" /\ e.val # <<>>
    IN /\ opens = (IF produced THEN 1 ELSE 0)
       /\ SuccessPrinted <=> produced
       /\ produced => out = File(OcrTextOf(0))
       /\ ~produced => out = outPrior

C9_Witness ==
  /\ inputPath \in ImageInputs /\ pc = "done"
  /\ AllOk /\ Happened("ocr", 0, "ok") /\ OcrTextOf(0) = <<>>
  /\ text = Str(<<>>)
  /\ outPrior = File(OldText) /\ out = File(OldText)
  /\ ~SuccessPrinted

====
